---- MODULE Spec2Model ----
(***************************************************************************)
(* A model of sirl/algorithms/birl/base.py: the GTBIRL estimator loop      *)
(* (GTBIRL.solve and GTBIRL._compute_policy), the PolicyWalk MCMC proposal *)
(* (PolicyWalkProposal.__call__) and the trajectory quality computations   *)
(* (GTBIRL._expert_trajectory_quality, _generated_trajectory_quality).     *)
(*                                                                         *)
(* Three specifications share the module, one per part of the program:     *)
(*   SpecSolve    one call of GTBIRL.solve, statement by statement;        *)
(*   SpecWalk     one call of PolicyWalkProposal.__call__, draw by draw    *)
(*                (FairWalk adds the fairness of the random draws);        *)
(*   SpecQuality  the two quality functions applied to drawn inputs.       *)
(***************************************************************************)
EXTENDS Integers, Sequences, FiniteSets

VARIABLES
    \* ---- GTBIRL.solve ----
    pc,          \* position of the control flow inside solve
    max_iter,    \* self._max_iter
    demos_arg,   \* the demos argument given to __init__
    demos,       \* self._demos
    rep,         \* self._rep, the current representation handle
    reward,      \* the local variable reward of solve
    iteration,   \* the index the for loop of solve is at
    g_trajs,     \* the local list g_trajs of solve
    trajs,       \* the local variable trajs of solve
    ret,         \* <<>> until solve returns, then <<returned value>>
    raised,      \* <<>> until an exception leaves solve, then <<exception>>
    calls,       \* log of the calls solve has made, in order
    findArgs,    \* log of the g_trajs argument of each find_next_reward call
    initLog,     \* log of the values returned by initialize_reward
    rewardLog,   \* log of the values returned by find_next_reward
    extractLog,  \* log of the values returned by find_best_policies
    \* ---- PolicyWalkProposal.__call__ ----
    wpc,         \* position of the control flow inside __call__
    dtype,       \* element type np.array(loc) infers: "int" or "float"
    loc,         \* the argument loc
    delta,       \* self.delta
    bounded,     \* self.bounded
    new_loc,     \* the local array new_loc
    changed,     \* the local flag changed
    cur_d,       \* the local d, the signed step of the last draw
    cur_i,       \* the local i, the coordinate of the last draw (from 1)
    draws,       \* number of draws made, counted up to MaxDraws
    result,      \* <<>> until __call__ returns, then <<returned array>>
    \* ---- the trajectory quality functions ----
    G,           \* self._rep.graph: out-edge lists, pi, phi and duration
    gamma,       \* self._rep.mdp.gamma, as <<numerator, denominator>>
    q_reward,    \* the argument reward, a weight vector
    q_demos,     \* self._demos, a list of trajectories (node lists)
    q_g_trajs,   \* the argument g_trajs, a list of lists of trajectories
    QEs,         \* <<>>, then the list _expert_trajectory_quality returned
    QPiv         \* <<>>, then the list _generated_trajectory_quality returned

solveVars == <<pc, max_iter, demos_arg, demos, rep, reward, iteration, g_trajs,
               trajs, ret, raised, calls, findArgs, initLog, rewardLog,
               extractLog>>

walkVars == <<wpc, dtype, loc, delta, bounded, new_loc, changed, cur_d, cur_i, draws,
              result>>

qualityVars == <<G, gamma, q_reward, q_demos, q_g_trajs, QEs, QPiv>>

vars == <<solveVars, walkVars, qualityVars>>

(***************************************************************************)
(* Bounds of the model.                                                    *)
(***************************************************************************)
MaxIter == 2
NumRewards == 2
NumTrajSets == 2

\* Coordinates and steps are exact multiples of 1/Unit: the number 1.0 is Unit.
Unit == 2
Dim == 2
MaxCoord == 3
MaxDelta == 5
MaxDraws == 2
MaxTrajLen == 3
MaxDuration == 2

Rewards == 1..NumRewards
TrajSets == 1..NumTrajSets

(***************************************************************************)
(* GTBIRL.solve                                                            *)
(***************************************************************************)

\* The abstract initialize_reward: a concrete variant returns some reward
\* weight vector.
initialize_reward == Rewards

\* The abstract find_next_reward: a concrete variant derives some reward
\* weight vector from the trajectory history; it reads the history only.
find_next_reward(history) == Rewards

\* The representation's update_rewards: a representation of the same graph
\* carrying the new weights; the returned object is the receiver itself
\* (same id) or a new object (an id not used before).
update_rewards(r, w) ==
    {[id |-> h, weights |-> w, solved |-> FALSE] : h \in {r.id, r.id + 1}}

\* graph_policy_iteration either annotates the graph with the greedy policy
\* or fails to converge and raises.
graph_policy_iteration == {"converged", "failed"}

\* The representation's find_best_policies: the trajectories of the greedy
\* policy, one set per call.
find_best_policies(r) == {[obj |-> "generated", trajs |-> t] : t \in TrajSets}

\* copy.deepcopy: a new object with the same content.
deepcopy(d) == [obj |-> "copy", trajs |-> d.trajs]

\* range(self._max_iter)
LoopRangeOneMore(k) == 0..k
LoopRange(k) == 0..(k - 1)

\* An entry of the call log: the call, the loop index it was made at and
\* the representation object it was made on (or returned).
Call(op, r) == [op |-> op, it |-> iteration, rep |-> r]

\* The parts of the program a specification is not about stay idle.
IdleWalk ==
    /\ wpc = "idle"
    /\ dtype = "float"
    /\ loc = <<>>
    /\ delta = 0
    /\ bounded = FALSE
    /\ new_loc = <<>>
    /\ changed = FALSE
    /\ cur_d = 0
    /\ cur_i = 0
    /\ draws = 0
    /\ result = <<>>

IdleSolve ==
    /\ pc = "idle"
    /\ max_iter = 0
    /\ demos_arg = <<>>
    /\ demos = <<>>
    /\ rep = <<>>
    /\ reward = <<>>
    /\ iteration = 0
    /\ g_trajs = <<>>
    /\ trajs = <<>>
    /\ ret = <<>>
    /\ raised = <<>>
    /\ calls = <<>>
    /\ findArgs = <<>>
    /\ initLog = <<>>
    /\ rewardLog = <<>>
    /\ extractLog = <<>>

IdleQuality ==
    /\ G = <<>>
    /\ gamma = <<>>
    /\ q_reward = <<>>
    /\ q_demos = <<>>
    /\ q_g_trajs = <<>>
    /\ QEs = <<>>
    /\ QPiv = <<>>

notSolve == <<walkVars, qualityVars>>
notWalk == <<solveVars, qualityVars>>
notQuality == <<solveVars, walkVars>>

\* GTBIRL.__init__
InitSolve ==
    /\ pc = "start"
    /\ max_iter \in 0..MaxIter
    /\ demos_arg \in {[obj |-> "demos", trajs |-> t] : t \in TrajSets}
    /\ demos = demos_arg
    /\ rep = [id |-> 0, weights |-> 0, solved |-> FALSE]
    /\ reward = <<>>
    /\ iteration = 0
    /\ g_trajs = <<>>
    /\ trajs = <<>>
    /\ ret = <<>>
    /\ raised = <<>>
    /\ calls = <<>>
    /\ findArgs = <<>>
    /\ initLog = <<>>
    /\ rewardLog = <<>>
    /\ extractLog = <<>>
    /\ IdleWalk
    /\ IdleQuality

\* reward = self.initialize_reward(); g_trajs = [deepcopy(self._demos)]
SeedHistory == <<deepcopy(demos)>>

Initialize ==
    /\ pc = "start"
    /\ \E r \in initialize_reward :
          /\ reward' = <<r>>
          /\ initLog' = Append(initLog, r)
    /\ g_trajs' = SeedHistory
    /\ pc' = "for"
    /\ UNCHANGED <<max_iter, demos_arg, demos, rep, iteration, trajs, ret, raised,
                   calls, findArgs, rewardLog, extractLog>>
    /\ UNCHANGED notSolve

\* for iteration in range(self._max_iter): the next index, or the end
ForNext ==
    /\ pc = "for"
    /\ pc' = IF iteration \in LoopRange(max_iter) THEN "find" ELSE "return"
    /\ UNCHANGED <<max_iter, demos_arg, demos, rep, reward, iteration, g_trajs,
                   trajs, ret, raised, calls, findArgs, initLog, rewardLog,
                   extractLog>>
    /\ UNCHANGED notSolve

\* reward = self.find_next_reward(g_trajs)
FindNextReward ==
    /\ pc = "find"
    /\ \E r \in find_next_reward(g_trajs) :
          /\ reward' = <<r>>
          /\ rewardLog' = Append(rewardLog, r)
    /\ findArgs' = Append(findArgs, g_trajs)
    /\ calls' = Append(calls, Call("find_next_reward", rep.id))
    /\ pc' = "update"
    /\ UNCHANGED <<max_iter, demos_arg, demos, rep, iteration, g_trajs, trajs,
                   ret, raised, initLog, extractLog>>
    /\ UNCHANGED notSolve

\* _compute_policy: self._rep = self._rep.update_rewards(reward)
AssignRepDropped(new) == rep
AssignRep(new) == new

UpdateRewards ==
    /\ pc = "update"
    /\ \E new \in update_rewards(rep, reward[1]) :
          /\ rep' = AssignRep(new)
          /\ calls' = Append(calls, Call("update_rewards", new.id))
    /\ pc' = "policy"
    /\ UNCHANGED <<max_iter, demos_arg, demos, reward, iteration, g_trajs, trajs,
                   ret, raised, findArgs, initLog, rewardLog, extractLog>>
    /\ UNCHANGED notSolve

\* _compute_policy: graph_policy_iteration(self._rep.graph, self._rep.mdp.gamma)
\* An exception raised by the call leaves _compute_policy and solve, neither
\* of which has a handler: it reaches the caller as it was raised, by code
\* that is given the graph and gamma and never the loop index.
AfterFailureResume == "extract"
AfterFailure == "raised"

PolicyIteration ==
    /\ pc = "policy"
    /\ \E outcome \in graph_policy_iteration :
          IF outcome = "converged"
          THEN /\ rep' = [rep EXCEPT !.solved = TRUE]
               /\ calls' = Append(calls, Call("graph_policy_iteration", rep.id))
               /\ pc' = "extract"
               /\ raised' = raised
          ELSE /\ rep' = rep
               /\ calls' = Append(calls, Call("graph_policy_iteration failed", rep.id))
               /\ pc' = AfterFailure
               /\ raised' = <<[from |-> "graph_policy_iteration", attached |-> {}]>>
    /\ UNCHANGED <<max_iter, demos_arg, demos, reward, iteration, g_trajs, trajs,
                   ret, findArgs, initLog, rewardLog, extractLog>>
    /\ UNCHANGED notSolve

\* trajs = self._rep.find_best_policies()
FindBestPolicies ==
    /\ pc = "extract"
    /\ \E t \in find_best_policies(rep) :
          /\ trajs' = <<t>>
          /\ extractLog' = Append(extractLog, t)
    /\ calls' = Append(calls, Call("find_best_policies", rep.id))
    /\ pc' = "append"
    /\ UNCHANGED <<max_iter, demos_arg, demos, rep, reward, iteration, g_trajs,
                   ret, raised, findArgs, initLog, rewardLog>>
    /\ UNCHANGED notSolve

\* g_trajs.append(trajs)
HistoryReset(h, t) == <<t>>
HistoryAppend(h, t) == Append(h, t)

AppendTrajs ==
    /\ pc = "append"
    /\ g_trajs' = HistoryAppend(g_trajs, trajs[1])
    /\ calls' = Append(calls, Call("append", rep.id))
    /\ pc' = "info"
    /\ UNCHANGED <<max_iter, demos_arg, demos, rep, reward, iteration, trajs, ret,
                   raised, findArgs, initLog, rewardLog, extractLog>>
    /\ UNCHANGED notSolve

\* self.info('Iteration: {}'.format(iteration)), then the loop's next index
Info ==
    /\ pc = "info"
    /\ calls' = Append(calls, Call("info", rep.id))
    /\ iteration' = iteration + 1
    /\ pc' = "for"
    /\ UNCHANGED <<max_iter, demos_arg, demos, rep, reward, g_trajs, trajs, ret,
                   raised, findArgs, initLog, rewardLog, extractLog>>
    /\ UNCHANGED notSolve

\* return reward
ReturnedInitial == <<initLog[1]>>
Returned == reward

Return ==
    /\ pc = "return"
    /\ ret' = Returned
    /\ pc' = "done"
    /\ UNCHANGED <<max_iter, demos_arg, demos, rep, reward, iteration, g_trajs,
                   trajs, raised, calls, findArgs, initLog, rewardLog, extractLog>>
    /\ UNCHANGED notSolve

NextSolve ==
    \/ Initialize
    \/ ForNext
    \/ FindNextReward
    \/ UpdateRewards
    \/ PolicyIteration
    \/ FindBestPolicies
    \/ AppendTrajs
    \/ Info
    \/ Return

SpecSolve == InitSolve /\ [][NextSolve]_vars

(***************************************************************************)
(* PolicyWalkProposal.__call__                                             *)
(***************************************************************************)

\* The coordinates an input array of the given element type can hold: an
\* array of integers holds whole numbers only.
Coords(t) ==
    IF t = "int" THEN {c \in -MaxCoord..MaxCoord : c % Unit = 0}
    ELSE -MaxCoord..MaxCoord

\* Conversion of a sum to the array's element type on item assignment: an
\* array of integers keeps the whole part, rounding toward zero.
Cast(v) ==
    IF dtype = "int"
    THEN IF v >= 0 THEN (v \div Unit) * Unit ELSE -(((-v) \div Unit) * Unit)
    ELSE v

\* new_loc[i] += d
SetItem(a, k, v) == [a EXCEPT ![k] = Cast(v)]

\* -1 <= new_loc[i]+d <= 1
InBoundsOpen(v) == -Unit < v /\ v < Unit
InBoundsUpper(v) == v <= Unit
InBounds(v) == -Unit <= v /\ v <= Unit

\* The array after a draw the bound check rejects.
RejectedKeepsMove(a, k, v) == SetItem(a, k, v)
Rejected(a, k, v) == a

\* choice([-self.delta, self.delta])
StepChoices == {-delta, delta}

\* randint(self.dim), counted from 1
IndexChoices == 1..Dim

\* PolicyWalkProposal.__init__ and the argument of one call
InitWalk ==
    /\ wpc = "call"
    /\ dtype \in {"int", "float"}
    /\ loc \in [1..Dim -> Coords(dtype)]
    /\ delta \in 0..MaxDelta
    /\ bounded \in BOOLEAN
    /\ new_loc = <<>>
    /\ changed = FALSE
    /\ cur_d = 0
    /\ cur_i = 0
    /\ draws = 0
    /\ result = <<>>
    /\ IdleSolve
    /\ IdleQuality

\* new_loc = np.array(loc); changed = False
Enter ==
    /\ wpc = "call"
    /\ new_loc' = loc
    /\ changed' = FALSE
    /\ wpc' = "while"
    /\ UNCHANGED <<dtype, loc, delta, bounded, cur_d, cur_i, draws, result>>
    /\ UNCHANGED notWalk

\* One pass of the body of the while loop with the draw (step, k).
Draw(step, k) ==
    /\ wpc = "while"
    /\ ~changed
    /\ cur_d' = step
    /\ cur_i' = k
    /\ draws' = IF draws < MaxDraws THEN draws + 1 ELSE draws
    /\ \/ /\ bounded
          /\ InBounds(new_loc[k] + step)
          /\ new_loc' = SetItem(new_loc, k, new_loc[k] + step)
          /\ changed' = TRUE
       \/ /\ bounded
          /\ ~InBounds(new_loc[k] + step)
          /\ new_loc' = Rejected(new_loc, k, new_loc[k] + step)
          /\ changed' = changed
       \/ /\ ~bounded
          /\ new_loc' = SetItem(new_loc, k, new_loc[k] + step)
          /\ changed' = TRUE
    /\ UNCHANGED <<wpc, dtype, loc, delta, bounded, result>>
    /\ UNCHANGED notWalk

DrawAny == \E step \in StepChoices, k \in IndexChoices : Draw(step, k)

\* while not changed: ... return new_loc
ReturnNewLoc ==
    /\ wpc = "while"
    /\ changed
    /\ result' = <<new_loc>>
    /\ wpc' = "returned"
    /\ UNCHANGED <<dtype, loc, delta, bounded, new_loc, changed, cur_d, cur_i, draws>>
    /\ UNCHANGED notWalk

NextWalk ==
    \/ Enter
    \/ DrawAny
    \/ ReturnNewLoc

SpecWalk == InitWalk /\ [][NextWalk]_vars

\* The draws are random and independent: while some draw would be accepted,
\* every pass of the loop makes such a draw with probability at least
\* 1 / (2 * dim), so the loop does not reject for ever.
AcceptedDraw == DrawAny /\ changed'

FairWalk ==
    /\ SpecWalk
    /\ WF_vars(Enter)
    /\ WF_vars(AcceptedDraw)
    /\ WF_vars(ReturnNewLoc)

(***************************************************************************)
(* GTBIRL._expert_trajectory_quality, GTBIRL._generated_trajectory_quality *)
(*                                                                         *)
(* A quality is kept exact, as the polynomial in gamma the loop adds up:   *)
(* Q[t] is the coefficient of gamma ** t. Durations are whole numbers.     *)
(***************************************************************************)

Nodes == {"S", "A", "T"}

\* The graphs: the chain S -> A -> T, with or without a second edge S -> T
\* out of S. T has no outgoing edge.
OutLists(extra) ==
    [n \in Nodes |->
        CASE n = "S" -> IF extra THEN << <<"S", "A">>, <<"S", "T">> >>
                        ELSE << <<"S", "A">> >>
          [] n = "A" -> << <<"A", "T">> >>
          [] OTHER -> <<>>]

EdgesOf(out) ==
    {e \in Nodes \X Nodes : \E n \in Nodes : \E k \in DOMAIN out[n] : out[n][k] = e}

\* The feature vectors of the edges.
Phi(e) ==
    CASE e = <<"S", "A">> -> <<1, 0>>
      [] e = <<"A", "T">> -> <<0, 1>>
      [] OTHER -> <<1, 1>>

\* A graph after policy iteration: every node with outgoing edges carries
\* the index pi of one of them.
Graphs ==
    UNION {
        {[out |-> OutLists(extra),
          pi |-> p,
          phi |-> [e \in EdgesOf(OutLists(extra)) |-> Phi(e)],
          duration |-> dur] :
            p \in {q \in [Nodes -> 0..1] :
                     \A n \in Nodes : q[n] < Len(OutLists(extra)[n]) \/ q[n] = 0},
            dur \in [EdgesOf(OutLists(extra)) -> 1..MaxDuration]}
        : extra \in BOOLEAN}

Trajectories == UNION {[1..n -> Nodes] : n \in 1..MaxTrajLen}

WeightChoices == {<<1, 1>>, <<1, -1>>, <<0, 2>>}
GammaChoices == {<<9, 10>>, <<1, 2>>}

\* The networkx accessors the functions use.
out_edges(n) == G.out[n]
gna_pi(n) == G.pi[n]
gea_phi(a, b) == G.phi[<<a, b>>]
gea_duration(a, b) == G.duration[<<a, b>>]

\* np.dot(reward, phi)
dot(w, f) == w[1] * f[1] + w[2] * f[2]

\* gr = 100
gr == 100

TimeCap == MaxTrajLen * MaxDuration
ZeroQ == [t \in 0..TimeCap |-> 0]

\* Q += (gamma ** time) * x
AddDiscounted(Q, time, x) == [Q EXCEPT ![time] = @ + x]

\* time += G.gea(e[0], e[1], 'duration')
AdvanceByStep(time, e) == time + 1
Advance(time, e) == time + gea_duration(e[1], e[2])

\* for n in traj: ... of _expert_trajectory_quality, from node k on
RECURSIVE ExpertLoop(_, _, _, _, _)
ExpertLoop(traj, k, time, QE, w) ==
    IF k > Len(traj) THEN QE
    ELSE LET n == traj[k]
             actions == out_edges(n)
         IN  IF actions # <<>>
             THEN LET e == actions[gna_pi(n) + 1]
                      r == dot(w, gea_phi(e[1], e[2]))
                  IN  ExpertLoop(traj, k + 1, Advance(time, e),
                                 AddDiscounted(QE, time, r), w)
             ELSE ExpertLoop(traj, k + 1, time, AddDiscounted(QE, time, gr), w)

\* for n in traj: ... of _generated_trajectory_quality, from node k on
RECURSIVE GeneratedLoop(_, _, _, _, _)
GeneratedLoop(traj, k, time, QPi, w) ==
    IF k > Len(traj) THEN QPi
    ELSE LET n == traj[k]
             actions == out_edges(n)
         IN  IF actions # <<>>
             THEN LET e == actions[gna_pi(n) + 1]
                      r == dot(w, gea_phi(e[1], e[2]))
                  IN  GeneratedLoop(traj, k + 1, Advance(time, e),
                                    AddDiscounted(QPi, time, r), w)
             ELSE GeneratedLoop(traj, k + 1, time, AddDiscounted(QPi, time, gr), w)

expert_trajectory_quality(w) ==
    [m \in DOMAIN q_demos |-> ExpertLoop(q_demos[m], 1, 0, ZeroQ, w)]

generated_trajectory_quality(w, g) ==
    [a \in DOMAIN g |->
        [b \in DOMAIN g[a] |-> GeneratedLoop(g[a][b], 1, 0, ZeroQ, w)]]

\* An estimator with its graph solved, its demonstrations and a history.
InitQuality ==
    /\ G \in Graphs
    /\ gamma \in GammaChoices
    /\ q_reward \in WeightChoices
    /\ \E t \in Trajectories :
          /\ q_demos = <<t, <<"S", "A", "T">> >>
          /\ q_g_trajs = << <<t>>, << <<"S", "A", "T">>, t>> >>
    /\ QEs = <<>>
    /\ QPiv = <<>>
    /\ IdleSolve
    /\ IdleWalk

\* QEs = self._expert_trajectory_quality(reward)
ExpertQuality ==
    /\ G # <<>>
    /\ QEs = <<>>
    /\ QEs' = expert_trajectory_quality(q_reward)
    /\ UNCHANGED <<G, gamma, q_reward, q_demos, q_g_trajs, QPiv>>
    /\ UNCHANGED notQuality

\* QPiv = self._generated_trajectory_quality(reward, g_trajs)
GeneratedQuality ==
    /\ G # <<>>
    /\ QPiv = <<>>
    /\ QPiv' = generated_trajectory_quality(q_reward, q_g_trajs)
    /\ UNCHANGED <<G, gamma, q_reward, q_demos, q_g_trajs, QEs>>
    /\ UNCHANGED notQuality

NextQuality ==
    \/ ExpertQuality
    \/ GeneratedQuality

SpecQuality == InitQuality /\ [][NextQuality]_vars

(***************************************************************************)
(* Properties of GTBIRL.solve                                              *)
(***************************************************************************)

\* The number of logged calls of one kind.
Count(ops) == Cardinality({n \in DOMAIN calls : calls[n].op \in ops})

PolicyIterationOps == {"graph_policy_iteration", "graph_policy_iteration failed"}

\* The calls of one loop iteration, in the order of the statements.
BodyOrder == <<{"find_next_reward"}, {"update_rewards"}, PolicyIterationOps,
               {"find_best_policies"}, {"append"}, {"info"}>>

\* C1: when solve returns with max_iter = k it has made exactly k calls of
\* find_next_reward, k policy iteration runs (one update_rewards and one
\* graph_policy_iteration each), k calls of find_best_policies and k appends,
\* and the history holds k+1 trajectory sets.
C1_ExactlyMaxIterRounds ==
    pc = "done" =>
        /\ Count({"find_next_reward"}) = max_iter
        /\ Count({"update_rewards"}) = max_iter
        /\ Count(PolicyIterationOps) = max_iter
        /\ Count({"find_best_policies"}) = max_iter
        /\ Count({"append"}) = max_iter
        /\ Len(rewardLog) = max_iter
        /\ Len(extractLog) = max_iter
        /\ Len(g_trajs) = max_iter + 1

C1_Witness ==
    /\ pc = "done"
    /\ max_iter >= 2
    /\ Count({"append"}) = max_iter

\* C2: solve returns the value of initialize_reward when max_iter = 0 and
\* otherwise the value returned by the last, max_iter-th, call of
\* find_next_reward.
C2_ReturnsFinalReward ==
    pc = "done" =>
        /\ Len(initLog) = 1
        /\ ret = IF max_iter = 0 THEN <<initLog[1]>> ELSE <<rewardLog[max_iter]>>

C2_Witness ==
    /\ pc = "done"
    /\ max_iter >= 2
    /\ ret = <<rewardLog[max_iter]>>
    /\ rewardLog[max_iter] # rewardLog[1]
    /\ rewardLog[max_iter] # initLog[1]

\* C6 as stated: a failure of policy iteration in iteration i reaches the
\* caller of solve with the iteration index i attached, no reward is
\* returned and nothing of the loop runs after it.
C6_FailureCarriesIteration ==
    pc = "raised" =>
        /\ Len(raised) = 1
        /\ iteration \in raised[1].attached
        /\ ret = <<>>

\* C6 as amended: a failure of policy iteration in iteration i reaches the
\* caller of solve exactly as graph_policy_iteration raised it, with no
\* iteration index attached; no reward is returned, and no trajectory
\* extraction, append, progress message or later iteration follows it.
C6_FailurePropagatesUnchanged ==
    /\ pc = "raised" =>
          /\ calls # <<>>
          /\ calls[Len(calls)].op = "graph_policy_iteration failed"
    /\ \A n \in DOMAIN calls :
          calls[n].op = "graph_policy_iteration failed" =>
             /\ n = Len(calls)
             /\ pc = "raised"
             /\ ret = <<>>
             /\ raised = <<[from |-> "graph_policy_iteration", attached |-> {}]>>
             /\ calls[n].it = iteration
             /\ Count({"find_next_reward"}) = iteration + 1
             /\ Count({"find_best_policies"}) = iteration
             /\ Count({"append"}) = iteration
             /\ Count({"info"}) = iteration
             /\ Len(g_trajs) = iteration + 1

C6_Witness ==
    /\ pc = "raised"
    /\ iteration >= 1
    /\ raised # <<>>

\* The history every find_next_reward call was given, and the history now.
C9_HistoryAtFind ==
    /\ demos = demos_arg
    /\ Len(findArgs) = Count({"find_next_reward"})
    /\ \A i \in DOMAIN findArgs :
          /\ Len(findArgs[i]) = i
          /\ findArgs[i][1].obj = "copy"
          /\ findArgs[i][1].trajs = demos_arg.trajs
          /\ \A j \in 2..i : findArgs[i][j] = extractLog[j - 1]
    /\ pc # "start" =>
          /\ Len(g_trajs) = Count({"append"}) + 1
          /\ g_trajs[1] = [obj |-> "copy", trajs |-> demos_arg.trajs]
          /\ \A j \in 2..Len(g_trajs) : g_trajs[j] = extractLog[j - 1]

\* A step keeps every entry the history holds, in its place.
C9_EntriesKept ==
    \A j \in DOMAIN g_trajs : j \in DOMAIN g_trajs' /\ g_trajs'[j] = g_trajs[j]

\* C9: at the find_next_reward call of iteration i the history has length
\* i+1, its first element is a copy of the demonstrations given at
\* construction, and its element j (from 0, j >= 1) is the set extracted in
\* iteration j-1, in order; no step of solve removes, moves or replaces an earlier entry of
\* the history, and self._demos stays the set given at construction.
C9_AppendOnlyHistory == []C9_HistoryAtFind /\ [][C9_EntriesKept]_vars

C9_Witness ==
    /\ pc = "done"
    /\ Len(findArgs) = 2
    /\ findArgs[2][2] = extractLog[1]
    /\ findArgs[2][1].trajs # findArgs[2][2].trajs
    /\ Len(g_trajs) = 3
    /\ g_trajs[2] # g_trajs[3]

\* C10: the calls of solve come in rounds of find_next_reward,
\* update_rewards, policy iteration, find_best_policies, append, progress
\* message, round i before round i+1; the value update_rewards returns is
\* the current representation from then on, and policy iteration and
\* find_best_policies of the round act on it.
C10_StepsInOrder ==
    /\ \A n \in DOMAIN calls :
          /\ calls[n].op \in BodyOrder[((n - 1) % 6) + 1]
          /\ calls[n].it = (n - 1) \div 6
          /\ (n - 1) % 6 \in 2..5 => calls[n].rep = calls[n - 1].rep
    /\ pc = "policy" =>
          /\ rep.id = calls[Len(calls)].rep
          /\ rep.weights = reward[1]
    /\ pc = "extract" => rep.solved /\ rep.weights = reward[1]

C10_Witness ==
    /\ Len(calls) >= 12
    /\ calls[12].op = "info"
    /\ calls[8].rep # calls[2].rep
    /\ calls[9].rep = calls[8].rep

(***************************************************************************)
(* Properties of PolicyWalkProposal.__call__                               *)
(***************************************************************************)

\* The interval [-1, 1].
InUnitInterval(v) == -Unit <= v /\ v <= Unit

Abs(v) == IF v >= 0 THEN v ELSE -v

\* Some draw (coordinate, sign) moves loc to a point the bound check accepts.
Admissible ==
    \E k \in 1..Dim, s \in {-1, 1} : InUnitInterval(loc[k] + s * delta)

\* C3 as stated: the returned point differs from loc in exactly one
\* coordinate, by exactly +delta or -delta, in bounded and unbounded mode.
C3_ExactlyOneCoordinateMoves ==
    wpc = "returned" =>
        \E k \in 1..Dim :
            /\ result[1][k] # loc[k]
            /\ result[1][k] - loc[k] \in {delta, -delta}
            /\ \A j \in 1..Dim : j # k => result[1][j] = loc[j]

\* C3 as amended: the returned point equals loc in every coordinate but the
\* one of the accepted draw, whatever draws were rejected before; that
\* coordinate is loc[i] + delta or loc[i] - delta for a float array (so it
\* differs from loc exactly when delta is not 0), and that sum with its
\* fraction cut off, toward zero, for an integer array.
C3_OnlyDrawnCoordinateMoves ==
    wpc = "returned" =>
        /\ Len(result) = 1
        /\ DOMAIN result[1] = 1..Dim
        /\ cur_i \in 1..Dim
        /\ cur_d \in {delta, -delta}
        /\ \A j \in 1..Dim : j # cur_i => result[1][j] = loc[j]
        /\ dtype = "float" => result[1][cur_i] = loc[cur_i] + cur_d
        /\ dtype = "int" =>
              /\ result[1][cur_i] % Unit = 0
              /\ Abs(result[1][cur_i]) <= Abs(loc[cur_i] + cur_d)
              /\ Abs(loc[cur_i] + cur_d) - Abs(result[1][cur_i]) < Unit
        /\ (dtype = "float" /\ delta # 0) => result[1][cur_i] # loc[cur_i]

C3_Witness ==
    /\ wpc = "returned"
    /\ bounded
    /\ draws >= 2
    /\ delta > 0
    /\ dtype = "float"
    /\ result[1][cur_i] = loc[cur_i] - delta

\* C4 as stated: in bounded mode every coordinate of the returned point
\* lies in [-1, 1].
C4_AllCoordinatesInBounds ==
    (wpc = "returned" /\ bounded) =>
        \A k \in 1..Dim : InUnitInterval(result[1][k])

\* C4 as amended: in bounded mode the coordinate the call changed lies in
\* [-1, 1] and the others are those of loc, so every coordinate of the
\* returned point that was in [-1, 1] in loc is in [-1, 1], and the whole
\* point is when loc was.
C4_MovedCoordinateInBounds ==
    (wpc = "returned" /\ bounded) =>
        /\ InUnitInterval(result[1][cur_i])
        /\ \A k \in 1..Dim : InUnitInterval(loc[k]) => InUnitInterval(result[1][k])

C4_Witness ==
    /\ wpc = "returned"
    /\ bounded
    /\ delta > 0
    /\ result[1][cur_i] = -Unit
    /\ \A k \in 1..Dim : InUnitInterval(loc[k])
    /\ draws >= 2

\* A bounded call that has returned had an admissible draw.
C5_NeverReturnsWithoutAdmissibleMove ==
    (wpc = "returned" /\ bounded) => Admissible

\* An unbounded call that has returned made one draw.
C5_UnboundedOneDraw ==
    (wpc = "returned" /\ ~bounded) => draws = 1

\* C5: in bounded mode the call returns only if some draw is admissible
\* for loc, and with fair draws it does return whenever one is, however many
\* draws are rejected first; with no admissible draw it never returns. In
\* unbounded mode it returns, after exactly one draw.
C5_ReturnsIffAdmissible ==
    /\ []C5_NeverReturnsWithoutAdmissibleMove
    /\ []C5_UnboundedOneDraw
    /\ (wpc = "call" /\ bounded /\ Admissible) ~> (wpc = "returned")
    /\ (wpc = "call" /\ ~bounded) ~> (wpc = "returned")

C5_Witness ==
    /\ wpc = "returned"
    /\ bounded
    /\ draws = MaxDraws
    /\ delta > 0
    /\ Cardinality({k \in 1..Dim : InUnitInterval(loc[k] + delta)
                                   \/ InUnitInterval(loc[k] - delta)}) = 1

(***************************************************************************)
(* Properties of the trajectory quality functions                          *)
(***************************************************************************)

\* The polynomial c * gamma ** t, and the sum of two polynomials.
Mono(t, c) == [x \in 0..TimeCap |-> IF x = t THEN c ELSE 0]
Plus(p, q) == [x \in 0..TimeCap |-> p[x] + q[x]]

\* 100 times the value of a polynomial of degree at most 2 at
\* gamma = 9/10: 100 * (Q[0] + Q[1] * 0.9 + Q[2] * 0.81).
HundredTimesValue(Q) == Q[0] * 100 + Q[1] * 90 + Q[2] * 81

IsTerminal(n) == G.out[n] = <<>>

\* The edge the policy annotation of node n selects.
PolicyEdge(n) == G.out[n][G.pi[n] + 1]

\* Every trajectory evaluated so far, with the quality computed for it.
Evaluated ==
    {<<q_demos[m], QEs[m]>> : m \in DOMAIN QEs} \cup
    UNION {{<<q_g_trajs[a][b], QPiv[a][b]>> : b \in DOMAIN QPiv[a]} : a \in DOMAIN QPiv}

\* A single terminal node gives the terminal bonus 100.
SingleTerminalCase(traj, Q) ==
    (Len(traj) = 1 /\ IsTerminal(traj[1])) => Q = Mono(0, 100)

\* The graph S -> A, A -> T with durations 1, gamma = 0.9 and weights [1, 1]
\* gives [S, A, T] the quality 1 + 0.9 + 0.81 * 100 = 82.9.
ScenarioCase(traj, Q) ==
    (/\ G.out = OutLists(FALSE)
     /\ \A e \in DOMAIN G.duration : G.duration[e] = 1
     /\ gamma = <<9, 10>>
     /\ q_reward = <<1, 1>>
     /\ traj = <<"S", "A", "T">>)
    => /\ Q = Plus(Mono(0, 1), Plus(Mono(1, 1), Mono(2, 100)))
       /\ HundredTimesValue(Q) = 8290

\* C7 as stated: the quality is the discounted return along the
\* trajectory's edges, discounted by the elapsed duration: 100 for a single
\* terminal node, gamma^0 * (weights . phi_AB) + gamma^duration_AB * 100 for
\* a trajectory A -> B along an edge of the graph with B terminal, and 82.9
\* in the scenario.
C7_QualityAlongTrajectoryEdges ==
    \A p \in Evaluated :
        LET traj == p[1]
            Q == p[2]
        IN  /\ SingleTerminalCase(traj, Q)
            /\ (/\ Len(traj) = 2
                /\ <<traj[1], traj[2]>> \in DOMAIN G.phi
                /\ IsTerminal(traj[2]))
               => Q = Plus(Mono(0, dot(q_reward, G.phi[<<traj[1], traj[2]>>])),
                           Mono(G.duration[<<traj[1], traj[2]>>], 100))
            /\ ScenarioCase(traj, Q)

\* C7 as amended: the quality is the discounted return along the edges the
\* policy annotations of the trajectory's nodes select, discounted by the
\* elapsed duration: 100 for a single terminal node; for a trajectory
\* [A, B] with B terminal, gamma^0 * (weights . phi_e) + gamma^duration_e *
\* 100 where e is the edge the policy selects at A, which is the formula of
\* the edge A -> B when that is the selected edge; and 82.9 in the scenario.
C7_QualityAlongPolicyEdges ==
    \A p \in Evaluated :
        LET traj == p[1]
            Q == p[2]
        IN  /\ SingleTerminalCase(traj, Q)
            /\ (/\ Len(traj) = 2
                /\ ~IsTerminal(traj[1])
                /\ IsTerminal(traj[2]))
               => /\ Q = Plus(Mono(0, dot(q_reward, G.phi[PolicyEdge(traj[1])])),
                              Mono(G.duration[PolicyEdge(traj[1])], 100))
                  /\ PolicyEdge(traj[1]) = <<traj[1], traj[2]>> =>
                        Q = Plus(Mono(0, dot(q_reward, G.phi[<<traj[1], traj[2]>>])),
                                 Mono(G.duration[<<traj[1], traj[2]>>], 100))
            /\ ScenarioCase(traj, Q)

C7_Witness ==
    /\ QEs # <<>>
    /\ QPiv # <<>>
    /\ G.out = OutLists(FALSE)
    /\ \A e \in DOMAIN G.duration : G.duration[e] = 1
    /\ gamma = <<9, 10>>
    /\ q_reward = <<1, 1>>
    /\ q_demos[1] = <<"A", "T">>
    /\ QEs[1] = Plus(Mono(0, 1), Mono(1, 100))
    /\ HundredTimesValue(QEs[2]) = 8290
    /\ HundredTimesValue(QPiv[2][1]) = 8290

\* The nodes of a trajectory up to its first terminal node.
RECURSIVE UpToFirstTerminal(_)
UpToFirstTerminal(traj) ==
    IF traj = <<>> THEN <<>>
    ELSE IF IsTerminal(Head(traj)) THEN <<Head(traj)>>
    ELSE <<Head(traj)>> \o UpToFirstTerminal(Tail(traj))

\* C8: the terminal bonus enters the quality of a trajectory once: what
\* the node list holds after its first terminal node adds nothing, so the
\* quality is that of the list cut after its first terminal node.
C8_TerminalContributesOnce ==
    \A p \in Evaluated :
        p[2] = ExpertLoop(UpToFirstTerminal(p[1]), 1, 0, ZeroQ, q_reward)

====
